---------------------------- MODULE Spec2Model ----------------------------
(***************************************************************************)
(* AFUZZ (src/afuzz.py): the driver main(), the sequential engine          *)
(* sync_fuzz, the concurrent engine async_fuzz with its coroutine          *)
(* fetch_url, and the file system and operator they act on.                *)
(*                                                                         *)
(* Strings are sequences of one-character strings.  The output log is the  *)
(* flat character content of the file at --output.  A response is either a *)
(* dict [url, status] or an exception value [exc]; echoing a URL (print)   *)
(* and appending it to the log (write) may each raise.                     *)
(*                                                                         *)
(* The string literal of src/afuzz.py:88-89 spans two lines; the model     *)
(* reads it as the single argument it is meant to be.                      *)
(***************************************************************************)
EXTENDS Integers, Sequences, FiniteSets, TLC

\* ------------------------------------------------------------------ bounds
MaxLines == 2     \* most lines a wordlist holds

\* --------------------------------------------------------- program constants
HTTP_OK == 200          \* the status the engines look for
HTTP_NOT_FOUND == 404   \* a status a server answers that is not 200

\* ------------------------------------------------------------------ strings
NL == "\n"
Whitespace == {" ", NL, "\t"}
Letters == {"h", "x", "a", "b", "y", "n", "e", "s", "o", "Y", "N"}
Placeholder == "@"

RECURSIVE Concat(_)
Concat(ss) == IF ss = <<>> THEN <<>> ELSE Head(ss) \o Concat(Tail(ss))

\* str.strip(): leading and trailing whitespace removed
RECURSIVE LStrip(_)
LStrip(s) == IF s # <<>> /\ Head(s) \in Whitespace THEN LStrip(Tail(s)) ELSE s

RECURSIVE RStrip(_)
RStrip(s) ==
    IF s # <<>> /\ s[Len(s)] \in Whitespace
    THEN RStrip(SubSeq(s, 1, Len(s) - 1))
    ELSE s

Strip(s) == RStrip(LStrip(s))

\* str.lower()
LowerChar(c) == CASE c = "Y" -> "y" [] c = "N" -> "n" [] OTHER -> c
Lower(s) == [i \in 1..Len(s) |-> LowerChar(s[i])]

\* str.replace('@', new): every occurrence, left to right, no rescan
RECURSIVE Replace(_, _)
Replace(s, new) ==
    IF s = <<>> THEN <<>>
    ELSE (IF Head(s) = Placeholder THEN new ELSE <<Head(s)>>)
         \o Replace(Tail(s), new)

\* '@' in s
Contains(s, c) == \E i \in 1..Len(s) : s[i] = c

\* str.find(c) + 1, or 0
Find(s, c) ==
    IF Contains(s, c) THEN CHOOSE i \in 1..Len(s) :
                                s[i] = c /\ \A j \in 1..(i - 1) : s[j] # c
    ELSE 0

\* file.readlines(): the lines of a text, each with its terminator
RECURSIVE ReadLines(_)
ReadLines(text) ==
    IF text = <<>> THEN <<>>
    ELSE LET k == Find(text, NL) IN
         IF k = 0 THEN <<text>>
         ELSE <<SubSeq(text, 1, k)>> \o ReadLines(SubSeq(text, k + 1, Len(text)))

\* the number of lines of a text
CountLines(text) == Len(ReadLines(text))

\* ------------------------------------------------------------ URL validator
\* urlparse(url).scheme
Scheme(u) ==
    LET i == Find(u, ":") IN
    IF i > 1 /\ \A j \in 1..(i - 1) : u[j] \in Letters
    THEN Lower(SubSeq(u, 1, i - 1)) ELSE <<>>

\* urlparse(url).netloc
Netloc(u) ==
    LET rest == IF Scheme(u) # <<>>
                THEN SubSeq(u, Find(u, ":") + 1, Len(u)) ELSE u
        body == SubSeq(rest, 3, Len(rest))
        stop == Find(body, "/")
    IN  IF Len(rest) >= 2 /\ rest[1] = "/" /\ rest[2] = "/"
        THEN (IF stop = 0 THEN body ELSE SubSeq(body, 1, stop - 1))
        ELSE <<>>

\* any([...]) where all([...]) is meant
is_valid_url_Any(u) == Scheme(u) # <<>> \/ Netloc(u) # <<>>

\* all([result.scheme, result.netloc])
is_valid_url(u) == Scheme(u) # <<>> /\ Netloc(u) # <<>>

\* ------------------------------------------------------------------- inputs
T_one      == <<"h", ":", "/", "/", "x", "/", "@">>
T_two      == <<"h", ":", "/", "/", "@", "/", "@">>
T_noAt     == <<"h", ":", "/", "/", "x", "/", "a">>
T_noScheme == <<"/", "/", "x", "/", "@">>
T_noHost   == <<"h", ":", "/", "@">>
Templates  == {T_one, T_two, T_noAt, T_noScheme, T_noHost}

L_word  == <<" ", "a", NL>>     \* a word with whitespace around it
L_blank == <<" ", NL>>          \* a whitespace-only line
L_at    == <<"@">>              \* a payload with the marker, no terminator
LineSet == {L_word, L_blank, L_at}

RECURSIVE SeqsUpTo(_, _)
SeqsUpTo(S, n) ==
    IF n = 0 THEN {<<>>}
    ELSE LET shorter == SeqsUpTo(S, n - 1) IN
         shorter \cup {Append(q, x) : q \in shorter, x \in S}

WordlistTexts == {Concat(q) : q \in SeqsUpTo(LineSet, MaxLines)}

YesAnswers == {<<"y">>, <<" ", "Y", " ">>}
NoAnswers  == {<<"n">>, <<>>, <<"y", "e", "s">>}
Answers    == YesAnswers \cup NoAnswers

\* an answer counts as yes when it starts with y
Declined_Prefix(answer) ==
    LET typed == Lower(Strip(answer)) IN typed = <<>> \/ Head(typed) # "y"

\* overwrite = input(...).strip().lower(); overwrite != 'y'
Declined(answer) == Lower(Strip(answer)) # <<"y">>

\* blank lines dropped while reading
Payloads_NonBlank(text) ==
    SelectSeq(ReadLines(text), LAMBDA line : Strip(line) # <<>>)

\* payloads = f.readlines()
Payloads(text) == ReadLines(text)

OldLog == <<"o", NL>>

\* what a GET can come to: a response with a status, or an exception
Dict(u, s) == [url |-> u, status |-> s]
Exc == [exc |-> "Exception"]
IsDict(r) == "status" \in DOMAIN r
Responses(u) == {Dict(u, HTTP_OK), Dict(u, HTTP_NOT_FOUND), Exc}

\* any response counts, whatever its status
IsSuccess_AnyStatus(r) == IsDict(r)

\* response.status_code == 200 / isinstance(result, dict) and status == 200
IsSuccess(r) == IsDict(r) /\ r.status = HTTP_OK

SinkFaults == {"none", "echo", "write"}

\* ------------------------------------------------------------------- state
VARIABLES
    url,            \* args.url
    mode,           \* args.mode
    wlState,        \* the wordlist path: "missing", "unreadable" or "ok"
    wlText,         \* the wordlist file's text
    outExists,      \* os.path.exists(args.output)
    file,           \* the characters of the file at args.output
    prior,          \* outExists and file as this invocation found them
    pc,             \* where the process is
    exitStatus,     \* -1 while running, else the process's exit status
    prompted,       \* the overwrite prompt was shown in this invocation
    answer,         \* what the operator typed at the prompt
    payloads,       \* main's payloads
    idx,            \* position of the current for loop
    success_count,  \* success_count of the engine
    stdout,         \* the URLs echoed in green, in order
    summary,        \* the count of the summary line, -1 before it is printed
    logOpen,        \* log_file is open
    sessionOpen,    \* the aiohttp session is open
    tasks,          \* the URLs of the fetch_url coroutines created so far
    dispatched,     \* the URLs handed to the transport, in call order
    inflight,       \* payload positions whose GET has not resolved
    results,        \* payload position -> its outcome, once resolved
    arrival,        \* the payload positions in the order they resolved
    examined,       \* how many outcomes the engine has gone through
    written,        \* the lines log_file.write has appended
    sinkRaised,     \* payload positions whose print or write raised
    truncated,      \* this invocation opened the output file with 'w'
    rerun           \* the tool has run before on this file system

vars == <<url, mode, wlState, wlText, outExists, file, prior, pc, exitStatus,
          prompted, answer, payloads, idx, success_count, stdout, summary,
          logOpen, sessionOpen, tasks, dispatched, inflight, results,
          arrival, examined, written, sinkRaised, truncated, rerun>>

\* groups of variables an action leaves alone
args    == <<url, mode, wlState, wlText, prior, rerun>>
disk    == <<outExists, file>>
console == <<prompted, answer>>
sink    == <<success_count, stdout, written, sinkRaised>>
handles == <<logOpen, sessionOpen, truncated>>
probes  == <<tasks, dispatched, inflight, results, arrival>>
process == <<pc, exitStatus>>

N == Len(payloads)

\* the payload put in as it was read, terminator and all
ProbeURL_NoStrip(i) == Replace(url, payloads[i])

\* url = base_url.replace('@', payload.strip())
ProbeURL(i) == Replace(url, Strip(payloads[i]))

Resolved == DOMAIN results

\* the outcomes kept in the order they complete, not in task order
Resolve_ByArrival(i, r) ==
    /\ results' = [k \in 1..(Len(arrival) + 1) |->
                      IF k = Len(arrival) + 1 THEN r ELSE results[k]]
    /\ arrival' = Append(arrival, i)
    /\ inflight' = inflight \ {i}

\* the outcome of payload i becomes r
Resolve(i, r) ==
    /\ results' = [k \in Resolved \cup {i} |-> IF k = i THEN r ELSE results[k]]
    /\ arrival' = Append(arrival, i)
    /\ inflight' = inflight \ {i}

\* a loop that stops at the first outcome that is an exception
NextIdx_Break(r, i) == IF IsDict(r) THEN i + 1 ELSE Len(payloads) + 1

\* the for loops go on with the next element whatever the outcome was
NextIdx(r, i) == i + 1

Fresh ==
    /\ pc = "main_url"
    /\ exitStatus = -1
    /\ prompted = FALSE
    /\ answer = <<>>
    /\ payloads = <<>>
    /\ idx = 0
    /\ success_count = 0
    /\ stdout = <<>>
    /\ summary = -1
    /\ logOpen = FALSE
    /\ sessionOpen = FALSE
    /\ tasks = <<>>
    /\ dispatched = <<>>
    /\ inflight = {}
    /\ results = <<>>
    /\ arrival = <<>>
    /\ examined = 0
    /\ written = <<>>
    /\ sinkRaised = {}
    /\ truncated = FALSE

\* the same, of the next state
FreshNext ==
    /\ pc' = "main_url"
    /\ exitStatus' = -1
    /\ prompted' = FALSE
    /\ answer' = <<>>
    /\ payloads' = <<>>
    /\ idx' = 0
    /\ success_count' = 0
    /\ stdout' = <<>>
    /\ summary' = -1
    /\ logOpen' = FALSE
    /\ sessionOpen' = FALSE
    /\ tasks' = <<>>
    /\ dispatched' = <<>>
    /\ inflight' = {}
    /\ results' = <<>>
    /\ arrival' = <<>>
    /\ examined' = 0
    /\ written' = <<>>
    /\ sinkRaised' = {}
    /\ truncated' = FALSE

Init ==
    /\ url \in Templates
    /\ mode \in {"sync", "async"}
    /\ wlState \in {"missing", "unreadable", "ok"}
    /\ wlText \in WordlistTexts
    /\ wlState = "missing" => wlText = <<>>
    /\ outExists \in BOOLEAN
    /\ file = IF outExists THEN OldLog ELSE <<>>
    /\ prior = [exists |-> outExists, file |-> file]
    /\ rerun = FALSE
    /\ Fresh

\* sys.exit(1), or an exception that leaves main
Exit1 ==
    /\ pc' = "exited"
    /\ exitStatus' = 1

\* ------------------------------------------------------------------- driver
ValidateUrl ==
    /\ pc = "main_url"
    /\ IF ~is_valid_url(url) THEN Exit1
       ELSE pc' = "main_placeholder" /\ UNCHANGED exitStatus
    /\ UNCHANGED <<args, disk, console, payloads, idx, summary, examined,
                   sink, handles, probes>>

CheckPlaceholder ==
    /\ pc = "main_placeholder"
    /\ IF ~Contains(url, Placeholder) THEN Exit1
       ELSE pc' = "main_wordlist" /\ UNCHANGED exitStatus
    /\ UNCHANGED <<args, disk, console, payloads, idx, summary, examined,
                   sink, handles, probes>>

CheckWordlist ==
    /\ pc = "main_wordlist"
    /\ IF wlState = "missing" THEN Exit1
       ELSE pc' = "main_output" /\ UNCHANGED exitStatus
    /\ UNCHANGED <<args, disk, console, payloads, idx, summary, examined,
                   sink, handles, probes>>

CheckOutput ==
    /\ pc = "main_output"
    /\ IF outExists
       THEN \E typed \in Answers :
               /\ prompted' = TRUE
               /\ answer' = typed
               /\ IF Declined(typed) THEN Exit1
                  ELSE pc' = "main_read" /\ UNCHANGED exitStatus
       ELSE pc' = "main_read" /\ UNCHANGED <<exitStatus, console>>
    /\ UNCHANGED <<args, disk, payloads, idx, summary, examined, sink,
                   handles, probes>>

ReadWordlist ==
    /\ pc = "main_read"
    /\ IF wlState = "unreadable"
       THEN Exit1 /\ UNCHANGED payloads
       ELSE /\ payloads' = Payloads(wlText)
            /\ pc' = "main_mode"
            /\ UNCHANGED exitStatus
    /\ UNCHANGED <<args, disk, console, idx, summary, examined, sink,
                   handles, probes>>

\* open(output_file, 'a')
OpenLog_Append ==
    /\ outExists' = TRUE
    /\ file' = file
    /\ logOpen' = TRUE
    /\ truncated' = TRUE

\* open(output_file, 'w')
OpenLog ==
    /\ outExists' = TRUE
    /\ file' = <<>>
    /\ logOpen' = TRUE
    /\ truncated' = TRUE

\* the URL and its terminator as two writes, the second lost when the
\* first one's flush raises
Record_TwoWrites(i, u, fault) ==
    /\ success_count' = success_count + 1
    /\ stdout' = IF fault = "echo" THEN stdout ELSE Append(stdout, u)
    /\ file' = IF fault = "none" THEN file \o u \o <<NL>>
               ELSE IF fault = "write" THEN file \o u ELSE file
    /\ written' = IF fault = "none" THEN Append(written, u \o <<NL>>)
                  ELSE written
    /\ sinkRaised' = IF fault = "none" THEN sinkRaised
                     ELSE sinkRaised \cup {i}

\* the Success branch for payload i: count, echo, append; print or write
\* may raise, and what follows the raising statement is not executed
Record(i, u, fault) ==
    /\ success_count' = success_count + 1
    /\ stdout' = IF fault = "echo" THEN stdout ELSE Append(stdout, u)
    /\ file' = IF fault = "none" THEN file \o u \o <<NL>> ELSE file
    /\ written' = IF fault = "none" THEN Append(written, u \o <<NL>>)
                  ELSE written
    /\ sinkRaised' = IF fault = "none" THEN sinkRaised
                     ELSE sinkRaised \cup {i}

\* --------------------------------------------------------- sequential engine
SyncOpen ==
    /\ pc = "main_mode"
    /\ mode = "sync"
    /\ success_count' = 0
    /\ OpenLog
    /\ idx' = 1
    /\ pc' = "sync_for"
    /\ UNCHANGED <<args, console, exitStatus, payloads, summary, examined,
                   stdout, written, sinkRaised, sessionOpen, probes>>

\* the next GET sent off while the one before it is still out
SyncDispatch_Ahead ==
    /\ pc \in {"sync_for", "sync_get"}
    /\ Len(dispatched) < N
    /\ dispatched' = Append(dispatched, ProbeURL(Len(dispatched) + 1))
    /\ inflight' = inflight \cup {Len(dispatched) + 1}
    /\ pc' = "sync_get"
    /\ UNCHANGED <<args, disk, console, exitStatus, payloads, idx, summary,
                   examined, sink, handles, tasks, results, arrival>>

SyncDispatch ==
    /\ pc = "sync_for"
    /\ idx <= N
    /\ dispatched' = Append(dispatched, ProbeURL(idx))
    /\ inflight' = inflight \cup {idx}
    /\ pc' = "sync_get"
    /\ UNCHANGED <<args, disk, console, exitStatus, payloads, idx, summary,
                   examined, sink, handles, tasks, results, arrival>>

\* the try around requests.get alone: what print or write raises leaves the
\* loop, the with block and main
SyncResponse_NarrowTry ==
    /\ pc = "sync_get"
    /\ examined' = examined + 1
    /\ \E r \in Responses(ProbeURL(idx)) :
          /\ Resolve(idx, r)
          /\ IF IsSuccess(r)
             THEN \E fault \in SinkFaults :
                     /\ Record(idx, ProbeURL(idx), fault)
                     /\ IF fault = "none"
                        THEN /\ idx' = NextIdx(r, idx)
                             /\ pc' = "sync_for"
                             /\ UNCHANGED <<exitStatus, logOpen>>
                        ELSE /\ logOpen' = FALSE
                             /\ Exit1
                             /\ UNCHANGED idx
             ELSE /\ idx' = NextIdx(r, idx)
                  /\ pc' = "sync_for"
                  /\ UNCHANGED <<sink, file, exitStatus, logOpen>>
    /\ UNCHANGED <<args, outExists, console, payloads, summary, sessionOpen,
                   truncated, tasks, dispatched>>

\* requests.get returns or raises; the except clause also takes what print
\* and write raise
SyncResponse ==
    /\ pc = "sync_get"
    /\ \E r \in Responses(ProbeURL(idx)) :
          /\ Resolve(idx, r)
          /\ IF IsSuccess(r)
             THEN \E fault \in SinkFaults : Record(idx, ProbeURL(idx), fault)
             ELSE UNCHANGED <<sink, file>>
          /\ idx' = NextIdx(r, idx)
    /\ examined' = examined + 1
    /\ pc' = "sync_for"
    /\ UNCHANGED <<args, outExists, console, exitStatus, payloads, summary,
                   handles, tasks, dispatched>>

\* the for loop is over: the with block closes log_file
SyncClose ==
    /\ pc = "sync_for"
    /\ idx > N
    /\ logOpen' = FALSE
    /\ pc' = "summary"
    /\ UNCHANGED <<args, disk, console, exitStatus, payloads, idx, summary,
                   examined, sink, sessionOpen, truncated, probes>>

\* --------------------------------------------------------- concurrent engine
AsyncOpen ==
    /\ pc = "main_mode"
    /\ mode = "async"
    /\ success_count' = 0
    /\ sessionOpen' = TRUE
    /\ OpenLog
    /\ tasks' = <<>>
    /\ idx' = 1
    /\ pc' = "async_for"
    /\ UNCHANGED <<args, console, exitStatus, payloads, summary, examined,
                   stdout, written, sinkRaised, dispatched, inflight, results,
                   arrival>>

\* tasks.append(fetch_url(session, url)): a coroutine object, not yet running
AsyncCreate ==
    /\ pc = "async_for"
    /\ idx <= N
    /\ tasks' = Append(tasks, ProbeURL(idx))
    /\ idx' = idx + 1
    /\ UNCHANGED <<args, disk, console, process, payloads, summary, examined,
                   sink, handles, dispatched, inflight, results, arrival>>

\* await asyncio.gather(*tasks, return_exceptions=True): the engine suspends
AsyncGather ==
    /\ pc = "async_for"
    /\ idx > N
    /\ pc' = "async_gather"
    /\ UNCHANGED <<args, disk, console, exitStatus, payloads, idx, summary,
                   examined, sink, handles, probes>>

\* the tasks behind a semaphore of one
FetchStart_Capped(i) ==
    /\ pc = "async_gather"
    /\ i = Len(dispatched) + 1
    /\ Cardinality(inflight) < 1
    /\ dispatched' = Append(dispatched, tasks[i])
    /\ inflight' = inflight \cup {i}
    /\ UNCHANGED <<args, disk, console, process, payloads, idx, summary,
                   examined, sink, handles, tasks, results, arrival>>

\* fetch_url reaches session.get(url, timeout=10); tasks start in list order
FetchStart(i) ==
    /\ pc = "async_gather"
    /\ i = Len(dispatched) + 1
    /\ dispatched' = Append(dispatched, tasks[i])
    /\ inflight' = inflight \cup {i}
    /\ UNCHANGED <<args, disk, console, process, payloads, idx, summary,
                   examined, sink, handles, tasks, results, arrival>>

\* fetch_url without its try: the exception leaves gather and the engine
FetchResolve_Raise(i) ==
    /\ pc = "async_gather"
    /\ i \in inflight
    /\ \E r \in Responses(tasks[i]) :
          /\ IsDict(r) => Len(dispatched) = Len(tasks)
          /\ IF IsDict(r)
             THEN /\ Resolve(i, r)
                  /\ UNCHANGED <<process, logOpen, sessionOpen>>
             ELSE /\ Exit1
                  /\ logOpen' = FALSE
                  /\ sessionOpen' = FALSE
                  /\ UNCHANGED <<inflight, results, arrival>>
    /\ UNCHANGED <<args, disk, console, payloads, idx, summary, examined,
                   sink, truncated, tasks, dispatched>>

\* fetch_url returns the dict, or the exception it caught; a status arrives
\* only once the loop has polled, that is after every task has started
FetchResolve(i) ==
    /\ pc = "async_gather"
    /\ i \in inflight
    /\ \E r \in Responses(tasks[i]) :
          /\ IsDict(r) => Len(dispatched) = Len(tasks)
          /\ Resolve(i, r)
    /\ UNCHANGED <<args, disk, console, process, payloads, idx, summary,
                   examined, sink, handles, tasks, dispatched>>

\* a wait that returns as soon as one task is done
GatherReturn_First ==
    /\ pc = "async_gather"
    /\ Resolved # {}
    /\ idx' = 1
    /\ pc' = "async_agg"
    /\ UNCHANGED <<args, disk, console, exitStatus, payloads, summary,
                   examined, sink, handles, probes>>

\* gather returns the results in task order once every task is done
GatherReturn ==
    /\ pc = "async_gather"
    /\ Resolved = 1..Len(tasks)
    /\ idx' = 1
    /\ pc' = "async_agg"
    /\ UNCHANGED <<args, disk, console, exitStatus, payloads, summary,
                   examined, sink, handles, probes>>

\* log_file and session opened without with: what print or write raises
\* leaves the engine with both still open
AsyncExamine_NoWith ==
    /\ pc = "async_agg"
    /\ idx <= Len(tasks)
    /\ examined' = examined + 1
    /\ LET result == results[idx] IN
       IF IsSuccess(result)
       THEN \E fault \in SinkFaults :
               /\ Record(idx, result.url, fault)
               /\ IF fault = "none"
                  THEN /\ idx' = NextIdx(result, idx)
                       /\ UNCHANGED <<process, logOpen, sessionOpen>>
                  ELSE /\ Exit1
                       /\ UNCHANGED <<idx, logOpen, sessionOpen>>
       ELSE /\ idx' = NextIdx(result, idx)
            /\ UNCHANGED <<process, logOpen, sessionOpen, sink, file>>
    /\ UNCHANGED <<args, outExists, console, payloads, summary, truncated,
                   probes>>

\* one turn of the loop over results; an exception of print or write leaves
\* both with blocks and main, and the interpreter exits with status 1
AsyncExamine ==
    /\ pc = "async_agg"
    /\ idx <= Len(tasks)
    /\ examined' = examined + 1
    /\ LET result == results[idx] IN
       IF IsSuccess(result)
       THEN \E fault \in SinkFaults :
               /\ Record(idx, result.url, fault)
               /\ IF fault = "none"
                  THEN /\ idx' = NextIdx(result, idx)
                       /\ UNCHANGED <<process, logOpen, sessionOpen>>
                  ELSE /\ logOpen' = FALSE
                       /\ sessionOpen' = FALSE
                       /\ Exit1
                       /\ UNCHANGED idx
       ELSE /\ idx' = NextIdx(result, idx)
            /\ UNCHANGED <<process, logOpen, sessionOpen, sink, file>>
    /\ UNCHANGED <<args, outExists, console, payloads, summary, truncated,
                   probes>>

\* the loop is over: both with blocks close
AsyncClose ==
    /\ pc = "async_agg"
    /\ idx > Len(tasks)
    /\ logOpen' = FALSE
    /\ sessionOpen' = FALSE
    /\ pc' = "summary"
    /\ UNCHANGED <<args, disk, console, exitStatus, payloads, idx, summary,
                   examined, sink, truncated, probes>>

\* print(f"\nSuccessful responses (200): {success_count}"), then main returns
Summary ==
    /\ pc = "summary"
    /\ summary' = success_count
    /\ pc' = "exited"
    /\ exitStatus' = 0
    /\ UNCHANGED <<args, disk, console, payloads, idx, examined, sink,
                   handles, probes>>

\* the operator runs the tool again, same arguments, on the same file system
Restart ==
    /\ pc = "exited"
    /\ rerun' = TRUE
    /\ mode' \in {"sync", "async"}
    /\ prior' = [exists |-> outExists, file |-> file]
    /\ FreshNext
    /\ UNCHANGED <<url, wlState, wlText, disk>>

\* every step of the program itself
Step ==
    \/ ValidateUrl
    \/ CheckPlaceholder
    \/ CheckWordlist
    \/ CheckOutput
    \/ ReadWordlist
    \/ SyncOpen
    \/ SyncDispatch
    \/ SyncResponse
    \/ SyncClose
    \/ AsyncOpen
    \/ AsyncCreate
    \/ AsyncGather
    \/ \E i \in 1..Len(tasks) : FetchStart(i)
    \/ \E i \in 1..Len(tasks) : FetchResolve(i)
    \/ GatherReturn
    \/ AsyncExamine
    \/ AsyncClose
    \/ Summary

Next == Step \/ Restart

Spec == Init /\ [][Next]_vars

\* the interpreter runs the program on, and every GET resolves within its
\* timeout
FairSpec == Spec /\ WF_vars(Step)

\* ------------------------------------------------------------ vocabulary
\* the size of the payload sequence: the lines of the wordlist
NLines == CountLines(wlText)

\* the ProbeURL the spec defines for the k-th line of the wordlist
ExpectedURL(k) == Replace(url, Strip(ReadLines(wlText)[k]))

\* the engine was entered and opened the log: the run has started
Started == truncated

\* the run is over, one way or the other
Ended == pc = "exited" /\ Started

\* the run reported its final summary
Completed == Ended /\ summary # -1

\* an exception left main: the interpreter printed a traceback
Aborted == Ended /\ summary = -1

Successes == {k \in Resolved : IsSuccess(results[k])}

\* ---------------------------------------------------------------- claims
\* C1: when the run reports its final summary, the reported success count
\* equals the number of lines written to the output log during that run.
C1_SummaryEqualsLines ==
    Completed => /\ summary = Len(written)
                 /\ summary = CountLines(file)

\* C2: at the end of a completed run the log holds exactly the Success
\* ProbeURLs: one line per probe that returned 200, with multiplicity, no
\* line for any other probe, and nothing else.
C2_LogIsSuccesses ==
    Completed =>
        LET lines == ReadLines(file) IN
        /\ Len(lines) = Cardinality(Successes)
        /\ \A k \in 1..N :
              Cardinality({j \in 1..Len(lines) :
                              lines[j] = ProbeURL(k) \o <<NL>>})
              = Cardinality({j \in Successes : ProbeURL(j) = ProbeURL(k)})

\* C3: in sequential mode the dispatched ProbeURLs are, in order and in
\* length, the payload sequence with substitution applied, each payload once
\* and none skipped after a failure or error, and the outcomes are produced
\* in payload order.
C3_SequentialOrder ==
    (mode = "sync" /\ Started) =>
        /\ Len(dispatched) <= NLines
        /\ \A k \in 1..Len(dispatched) : dispatched[k] = ExpectedURL(k)
        /\ arrival = [k \in 1..Len(arrival) |-> k]
        /\ Len(arrival) \in {Len(dispatched), Len(dispatched) - 1}
        /\ pc \in {"summary", "exited"} =>
              Len(dispatched) = NLines /\ Len(arrival) = NLines

\* a sequential run that went on after an error or a 404
C3_Witness ==
    /\ mode = "sync"
    /\ Completed
    /\ N = 2
    /\ ~IsSuccess(results[1])
    /\ IsSuccess(results[2])
    /\ dispatched = <<ExpectedURL(1), ExpectedURL(2)>>

\* C4 as claimed: every concurrent run issues N probes, produces N outcomes
\* and its aggregation loop examines all N of them.
C4_AllExamined ==
    (mode = "async" /\ Ended) =>
        /\ Len(dispatched) = NLines
        /\ Resolved = 1..NLines
        /\ examined = NLines

\* C4 as amended: in concurrent mode exactly N probes are issued, one per
\* payload, and exactly N outcomes are produced whatever the arrival order
\* and whichever probes error; the aggregation loop examines all N when the
\* run reaches its summary, and stops at the Success whose echo or write
\* raises otherwise.
C4_AllProbedOnce ==
    (mode = "async" /\ Started) =>
        /\ Len(dispatched) <= NLines
        /\ \A k \in 1..Len(dispatched) : dispatched[k] = ExpectedURL(k)
        /\ Len(arrival) = Cardinality(Resolved)
        /\ pc \in {"async_agg", "summary", "exited"} =>
              /\ Len(dispatched) = NLines
              /\ Resolved = 1..NLines
              /\ Len(arrival) = NLines
        /\ (pc = "summary" \/ Completed) =>
              examined = NLines /\ sinkRaised = {}
        /\ Aborted => examined \in sinkRaised

\* a concurrent run whose responses arrived out of order, one an error
C4_Witness ==
    /\ mode = "async"
    /\ Completed
    /\ arrival = <<2, 1>>
    /\ ~IsDict(results[2])
    /\ IsSuccess(results[1])
    /\ examined = 2

\* C5: a transport error or timeout on a probe never aborts the run: every
\* other payload is still probed, every other 200 response is still counted
\* and logged, and the process ends with the summary and status 0.
C5_ErrorsNeverAbort ==
    (Ended /\ \E k \in Resolved : ~IsDict(results[k])) =>
        /\ Len(dispatched) = NLines
        /\ Resolved = 1..NLines
        /\ success_count = Cardinality(Successes)
        /\ \A k \in Successes :
              \E j \in 1..Len(written) : written[j] = ProbeURL(k) \o <<NL>>
        /\ exitStatus = 0

\* the inputs the driver rejects
InvalidTemplate == url \in {T_noScheme, T_noHost}
NoPlaceholder == url = T_noAt
InputError ==
    \/ InvalidTemplate
    \/ NoPlaceholder
    \/ wlState \in {"missing", "unreadable"}

\* C6: on an InputError (template fails validation, no '@', wordlist missing,
\* wordlist unreadable) the driver gets no further than the failing check and
\* exits with status 1; no probe is issued and the output file is neither
\* created nor truncated.
C6_InputErrorStopsRun ==
    /\ InvalidTemplate => pc \in {"main_url", "exited"}
    /\ NoPlaceholder => pc \in {"main_url", "main_placeholder", "exited"}
    /\ wlState = "missing" =>
          pc \in {"main_url", "main_placeholder", "main_wordlist", "exited"}
    /\ wlState = "unreadable" =>
          pc \in {"main_url", "main_placeholder", "main_wordlist",
                  "main_output", "main_read", "exited"}
    /\ InputError =>
          /\ pc = "exited" => exitStatus = 1
          /\ dispatched = <<>> /\ tasks = <<>> /\ inflight = {}
          /\ ~truncated /\ ~logOpen
          /\ [exists |-> outExists, file |-> file] = prior

\* an unreadable wordlist, found after the operator agreed to overwrite
C6_Witness ==
    /\ wlState = "unreadable"
    /\ url = T_one
    /\ prompted /\ answer \in YesAnswers
    /\ pc = "exited" /\ exitStatus = 1
    /\ file = OldLog

\* C7: when the output path exists the driver prompts before the file is
\* truncated; it is truncated only after the operator confirms, and on a
\* decline the driver exits with status 1, the file unchanged, no probe sent.
C7_OverwriteGate ==
    /\ (prior.exists /\ Started) => (prompted /\ answer \in YesAnswers)
    /\ ~Started => [exists |-> outExists, file |-> file] = prior
    /\ (prompted /\ answer \in NoAnswers) =>
          /\ pc = "exited" /\ exitStatus = 1
          /\ ~Started
          /\ dispatched = <<>> /\ tasks = <<>>
    /\ prompted => prior.exists

\* the operator typed yes in full: that is a decline
C7_Witness ==
    /\ prompted
    /\ answer = <<"y", "e", "s">>
    /\ pc = "exited" /\ exitStatus = 1
    /\ file = OldLog /\ prior.file = OldLog

\* C8: a second run on the same output path, overwrite confirmed, leaves a
\* log with only that run's Success URLs, never the first run's followed by
\* them; a second run with no Success leaves an empty log.
C8_SecondRunOnly ==
    (rerun /\ Ended) =>
        /\ file = Concat(written)
        /\ \A j \in 1..Len(written) :
              \E k \in Successes : written[j] = ProbeURL(k) \o <<NL>>
        /\ Successes = {} => file = <<>>

\* a first run left lines; the second run left other ones
C8_Witness ==
    /\ rerun /\ Completed
    /\ prior.file \notin {<<>>, OldLog}
    /\ prompted /\ answer \in YesAnswers
    /\ written # <<>>
    /\ file # prior.file

\* C9 as claimed: a started run always ends with all probes resolved, the
\* summary printed and exit status 0.
C9_AlwaysSummary ==
    Ended => /\ Resolved = 1..NLines
             /\ summary # -1
             /\ exitStatus = 0

\* C9 as amended: once a run has started every probe resolves and the
\* process ends; it ends with the summary and status 0 however many probes
\* failed or errored, except that in concurrent mode an exception of the echo
\* or the write ends it with status 1 and no summary.
C9_RunEnds ==
    /\ [](Ended =>
            /\ Resolved = 1..NLines /\ inflight = {}
            /\ \/ summary = success_count /\ exitStatus = 0
               \/ /\ mode = "async" /\ sinkRaised # {}
                  /\ summary = -1 /\ exitStatus = 1)
    /\ (Started ~> Ended)

\* a run in which no probe succeeded, completed all the same
C9_Witness ==
    /\ Completed /\ exitStatus = 0 /\ summary = 0
    /\ N = 2
    /\ ~IsDict(results[1])
    /\ IsDict(results[2]) /\ ~IsSuccess(results[2])

\* blank lines, and the template with its marker taken out
Blank(line) == \A j \in 1..Len(line) : line[j] \in Whitespace
WithoutPlaceholder(u) == SelectSeq(u, LAMBDA c : c # Placeholder)
Lines == ReadLines(wlText)

\* C10: blank lines are not filtered: every line of the wordlist, blank or
\* not, yields exactly one probe; for a blank line the ProbeURL is the
\* template without the placeholder, and a 200 for it is counted and logged
\* like any other.
C10_BlankLinesProbed ==
    Started =>
        /\ payloads = Lines
        /\ Len(dispatched) <= NLines
        /\ \A k \in 1..Len(dispatched) :
              Blank(Lines[k]) => dispatched[k] = WithoutPlaceholder(url)
        /\ pc \in {"summary", "exited"} => Len(dispatched) = NLines
        /\ success_count =
              Cardinality({k \in 1..examined : IsSuccess(results[k])})
        /\ \A k \in 1..examined :
              (Blank(Lines[k]) /\ IsSuccess(results[k]) /\ k \notin sinkRaised)
              => \E j \in 1..Len(written) :
                    written[j] = WithoutPlaceholder(url) \o <<NL>>

\* the scenario of the spec: a word, then a blank line that answers 200
C10_Witness ==
    /\ Completed
    /\ url = T_one
    /\ wlText = L_word \o L_blank
    /\ IsSuccess(results[1]) /\ IsSuccess(results[2])
    /\ summary = 2
    /\ file = <<"h", ":", "/", "/", "x", "/", "a", NL,
                "h", ":", "/", "/", "x", "/", NL>>

\* --------------------------------------------------- substitution on its own
\* templates and wordlist lines for the substitution of lines 31 and 55
T_mid   == <<"h", ":", "/", "/", "x", "/", "@", "/", "a">>
T_query == <<"x", "?", "b", "=", "@", "&", "y">>
T_only  == <<"@">>
SubstTemplates ==
    {T_one, T_two, T_noAt, T_noScheme, T_noHost, T_mid, T_query, T_only}

L_inner == <<"a", " ", "b", NL>>
L_empty == <<NL>>
L_tab   == <<"\t", "b">>
L_plain == <<"a", "b">>
L_mixed == <<"a", "@", NL>>
SubstLines ==
    {L_word, L_blank, L_at, L_inner, L_empty, L_tab, L_plain, L_mixed}

\* a template and one line of the wordlist, before the substitution
SubstInit ==
    /\ url \in SubstTemplates
    /\ payloads \in {<<line>> : line \in SubstLines}
    /\ pc = "subst"
    /\ mode = "sync"
    /\ wlState = "ok"
    /\ wlText = payloads[1]
    /\ outExists = FALSE
    /\ file = <<>>
    /\ prior = [exists |-> FALSE, file |-> <<>>]
    /\ rerun = FALSE
    /\ exitStatus = -1
    /\ prompted = FALSE
    /\ answer = <<>>
    /\ idx = 1
    /\ success_count = 0
    /\ stdout = <<>>
    /\ summary = -1
    /\ logOpen = FALSE
    /\ sessionOpen = FALSE
    /\ tasks = <<>>
    /\ dispatched = <<>>
    /\ inflight = {}
    /\ results = <<>>
    /\ arrival = <<>>
    /\ examined = 0
    /\ written = <<>>
    /\ sinkRaised = {}
    /\ truncated = FALSE

\* url = base_url.replace('@', payload.strip()), handed to the transport
Substitute ==
    /\ pc = "subst"
    /\ dispatched' = Append(dispatched, ProbeURL(idx))
    /\ pc' = "subst_done"
    /\ UNCHANGED <<args, disk, console, exitStatus, payloads, idx, summary,
                   examined, sink, handles, tasks, inflight, results, arrival>>

SubstSpec == SubstInit /\ [][Substitute]_vars

\* how often c occurs in s
Occurrences(s, c) == Cardinality({j \in 1..Len(s) : s[j] = c})

\* s without the whitespace at its two ends
Trimmed(s) ==
    LET solid == {j \in 1..Len(s) : s[j] \notin Whitespace} IN
    IF solid = {} THEN <<>>
    ELSE SubSeq(s, CHOOSE j \in solid : \A k \in solid : j <= k,
                   CHOOSE j \in solid : \A k \in solid : j >= k)

\* the text of a template before and after its first marker
BeforeMarker(t) == SubSeq(t, 1, Find(t, Placeholder) - 1)
AfterMarker(t) == SubSeq(t, Find(t, Placeholder) + 1, Len(t))

\* C11: for a template with exactly one '@' and a payload without '@', the
\* ProbeURL has no '@' and is the template's text before the marker, then the
\* trimmed payload, then the template's text after the marker.
C11_Substitution ==
    (/\ pc = "subst_done"
     /\ Occurrences(url, Placeholder) = 1
     /\ ~Contains(payloads[1], Placeholder)) =>
        /\ ~Contains(dispatched[1], Placeholder)
        /\ dispatched[1] = BeforeMarker(url) \o Trimmed(payloads[1])
                                             \o AfterMarker(url)

\* the marker in the middle of the template, a word with whitespace around it
C11_Witness ==
    /\ pc = "subst_done"
    /\ url = T_mid
    /\ payloads = <<L_word>>
    /\ dispatched = <<<<"h", ":", "/", "/", "x", "/", "a", "/", "a">>>>

\* C12: in sequential mode at most one request is in flight in every state:
\* the request for payload i+1 is not dispatched before the request for
\* payload i has resolved as success, failure or error.
C12_OneInFlight ==
    mode = "sync" =>
        /\ Cardinality(inflight) <= 1
        /\ inflight \subseteq {Len(dispatched)}
        /\ \A k \in 1..Len(dispatched) :
              k < Len(dispatched) => k \in Resolved
        /\ inflight \cap Resolved = {}

\* the second request is out, the first has resolved
C12_Witness ==
    /\ mode = "sync"
    /\ pc = "sync_get"
    /\ inflight = {2}
    /\ Resolved = {1}

\* C13: in concurrent mode aggregation does not begin before every probe task
\* has resolved: while any probe is in flight or not yet started the counter
\* is 0, nothing has been echoed and nothing has been written to the log.
C13_JoinBeforeAggregation ==
    (mode = "async" /\ Started /\ (inflight # {} \/ Resolved # 1..NLines)) =>
        /\ pc \in {"async_for", "async_gather"}
        /\ success_count = 0
        /\ stdout = <<>>
        /\ written = <<>> /\ file = <<>>
        /\ examined = 0

\* a 200 has arrived, another probe is still out, nothing is recorded yet
C13_Witness ==
    /\ mode = "async"
    /\ pc = "async_gather"
    /\ inflight = {1}
    /\ 2 \in Resolved /\ IsDict(results[2]) /\ results[2].status = HTTP_OK
    /\ success_count = 0 /\ stdout = <<>> /\ file = <<>>

\* an outcome that is a Failure (a status other than 200) or an Error
IsFailure(r) == "status" \in DOMAIN r /\ r.status # HTTP_OK
IsError(r) == "exc" \in DOMAIN r

\* C14: handling a Failure or an Error outcome leaves the counter, the
\* operator's stream and the log exactly as they were, in both modes.
C14_NonSuccessIsSilent ==
    [][(/\ examined' = examined + 1
        /\ examined' \in DOMAIN results'
        /\ IsFailure(results'[examined']) \/ IsError(results'[examined']))
       => /\ success_count' = success_count
          /\ stdout' = stdout
          /\ file' = file
          /\ written' = written]_vars

\* a Success was recorded, then a 404 and nothing more
C14_Witness ==
    /\ Completed
    /\ N = 2 /\ examined = 2
    /\ IsDict(results[1]) /\ results[1].status = HTTP_OK /\ sinkRaised = {}
    /\ IsFailure(results[2])
    /\ success_count = 1 /\ Len(stdout) = 1 /\ Len(written) = 1


\* the states in which control is inside an engine's with block
InEngine == pc \in {"sync_for", "sync_get", "async_for", "async_gather",
                    "async_agg"}

\* C15: the log handle is opened, truncating, only at the start of the run,
\* is open only while control is inside the engine, and is closed whenever
\* the run ends, in either mode, also when probes errored and when an
\* exception leaves the engine: no state after the run's end has it open.
C15_HandleClosedAtEnd ==
    /\ logOpen <=> InEngine
    /\ logOpen => (truncated /\ file = Concat(written))
    /\ pc \in {"summary", "exited"} => ~logOpen
    /\ ~truncated => ~logOpen

\* print or write raised in the concurrent engine, after a probe errored:
\* the run is over and the handle is closed
C15_Witness ==
    /\ Aborted
    /\ mode = "async"
    /\ sinkRaised = {2}
    /\ IsError(results[1])
    /\ ~logOpen

\* the number of line terminators in a text
Terminators(s) == Occurrences(s, NL)

\* C16: writes to the log never interleave: each write is made by the one
\* engine step that examines an outcome, in concurrent mode only after every
\* probe has resolved, so the log is at every moment a sequence of whole
\* lines, each a Success URL followed by its terminator.
C16_WholeLines ==
    Started =>
        /\ file = Concat(written)
        /\ Terminators(file) = Len(written)
        /\ \A j \in 1..Len(written) :
              \E k \in 1..NLines : written[j] = ExpectedURL(k) \o <<NL>>
        /\ Len(written) <= examined
        /\ (mode = "async" /\ written # <<>>) => inflight = {}

\* two 200 responses that were out together and arrived in reverse order
C16_Witness ==
    /\ mode = "async"
    /\ Completed
    /\ arrival = <<2, 1>>
    /\ Successes = {1, 2}
    /\ Len(written) = 2
    /\ file = written[1] \o written[2]

\* C17: concurrent mode puts no cap on the requests in flight: a task exists
\* for every payload before the engine waits on any, and the next task may
\* start however many are already out, so all N are in flight at once.
C17_NoCap ==
    (mode = "async" /\ pc = "async_gather") =>
        /\ Len(tasks) = NLines
        /\ Len(dispatched) < NLines => ENABLED FetchStart(Len(dispatched) + 1)

\* every one of the N = MaxLines requests is in flight
C17_Witness ==
    /\ mode = "async"
    /\ pc = "async_gather"
    /\ N = MaxLines
    /\ inflight = 1..N
    /\ Resolved = {}


\* the Success URLs among the first n payloads, in payload order
RECURSIVE SuccessURLs(_)
SuccessURLs(n) ==
    IF n = 0 THEN <<>>
    ELSE IF n \in Successes THEN Append(SuccessURLs(n - 1), ExpectedURL(n))
    ELSE SuccessURLs(n - 1)

\* the lines the sink writes for a sequence of URLs
AsLines(us) == [j \in 1..Len(us) |-> us[j] \o <<NL>>]

IsPrefix(a, b) == Len(a) <= Len(b) /\ a = SubSeq(b, 1, Len(a))

\* C18 as stated: at the end of a concurrent run the URLs echoed and the log
\* are the payload-ordered subsequence of the ProbeURLs whose status was 200,
\* whatever the order in which the responses completed.
C18_LogIsOrderedSuccesses ==
    (mode = "async" /\ Ended) =>
        /\ stdout = SuccessURLs(NLines)
        /\ written = AsLines(SuccessURLs(NLines))
        /\ file = Concat(written)

\* C18 amended: in concurrent mode the Success URLs are echoed and written in
\* payload order whatever the completion order; at the summary the log is
\* the payload-ordered subsequence of the ProbeURLs whose status was 200,
\* and a run ended early by an exception of the echo or the write leaves a
\* payload-ordered prefix of that subsequence.
C18_PayloadOrder ==
    (mode = "async" /\ Started) =>
        /\ file = Concat(written)
        /\ IsPrefix(stdout, SuccessURLs(NLines))
        /\ IsPrefix(written, AsLines(SuccessURLs(NLines)))
        /\ Len(written) <= Len(stdout) /\ Len(stdout) <= Len(written) + 1
        /\ (pc = "summary" \/ Completed) =>
              /\ stdout = SuccessURLs(NLines)
              /\ written = AsLines(SuccessURLs(NLines))

\* two different Success URLs whose responses completed in reverse order,
\* logged in payload order
C18_Witness ==
    /\ mode = "async"
    /\ Completed
    /\ arrival = <<2, 1>>
    /\ Successes = {1, 2}
    /\ ExpectedURL(1) # ExpectedURL(2)
    /\ stdout = <<ExpectedURL(1), ExpectedURL(2)>>
    /\ file = ExpectedURL(1) \o <<NL>> \o ExpectedURL(2) \o <<NL>>

\* C19: sequential mode records incrementally: when the request for payload
\* i+1 is dispatched, the Success URL of every earlier payload that returned
\* 200 has been echoed and written to the log and the counter includes it.
C19_IncrementalRecording ==
    (mode = "sync" /\ pc = "sync_get") =>
        /\ stdout = SuccessURLs(idx - 1)
        /\ written = AsLines(SuccessURLs(idx - 1))
        /\ file = Concat(written)
        /\ success_count = Cardinality({k \in Successes : k < idx})

\* C20: in sequential mode an exception raised while echoing or writing a
\* Success is absorbed by the per-probe handler: the run goes on with the
\* next payload and still ends with its summary; in concurrent mode the same
\* exception leaves the engine and the run ends without a summary.
C20_SinkFailure ==
    /\ []((mode = "sync" /\ Started) =>
            /\ ~Aborted /\ exitStatus # 1
            /\ \A i \in sinkRaised : i \in Successes /\ (pc = "sync_get" \/ idx > i)
            /\ Ended => (Completed /\ Len(dispatched) = NLines
                         /\ Resolved = 1..NLines))
    /\ []((mode = "async" /\ sinkRaised # {}) =>
            /\ Aborted /\ exitStatus = 1 /\ summary = -1
            /\ sinkRaised = {examined}
            /\ ~logOpen /\ ~sessionOpen)
    /\ ((mode = "sync" /\ sinkRaised # {}) ~> Completed)

\* the echo or the write of the first Success raised, the second payload was
\* probed all the same and the summary was printed
C20_Witness ==
    /\ mode = "sync"
    /\ Completed
    /\ sinkRaised = {1}
    /\ Resolved = {1, 2}
    /\ summary = success_count
=============================================================================
